---- MODULE Spec2Model ----
(***************************************************************************)
(* Model of rust-core/src/lib.rs (feverdream_crypto): the process-wide     *)
(* ENCRYPTION_STATE mutex, the EncryptionManager behind it and the five    *)
(* exported operations, called concurrently by the host's threads.         *)
(*                                                                         *)
(* The Cryptographic Engine (vodozemac) is modelled at its interface:      *)
(* Account::new() and GroupSession::new() draw fresh secrets (a counter    *)
(* stands for the random source, so two draws never collide), and          *)
(* GroupSession::encrypt advances the session's message index.             *)
(***************************************************************************)
EXTENDS Integers, Sequences, FiniteSets, TLC

\* ---- bounds of the model ------------------------------------------------
MaxDraws == 3
MaxMessages == 2
MaxAdmitted == 1

\* ---- inputs the host may pass -------------------------------------------
Threads  == {"t1", "t2"}
Users    == {"alice"}
Devices  == {"DEV1"}
Rooms    == {"", "room1"}
Contents == {"hello"}

\* ---- hex::encode --------------------------------------------------------
HexDigits == <<"0", "1", "2", "3", "4", "5", "6", "7",
               "8", "9", "a", "b", "c", "d", "e", "f">>

RECURSIVE hex_encode(_)
hex_encode(bytes) ==
    IF bytes = <<>> THEN ""
    ELSE HexDigits[(Head(bytes) \div 16) + 1] \o HexDigits[(Head(bytes) % 16) + 1]
         \o hex_encode(Tail(bytes))

\* ---- vodozemac, at its interface ----------------------------------------
\* Account::new(): a key pair drawn from the random source (seed).
Account_new(seed) == [seed |-> seed]

\* Account::identity_keys(): the two public keys of the account.
identity_keys(account) ==
    [ed25519 |-> <<16 * account.seed + 14>>, curve25519 |-> <<16 * account.seed + 12>>]

\* GroupSession::new(): a fresh ratchet, message index 0.
GroupSession_new(seed) == [ratchet |-> seed, message_index |-> 0]

\* GroupSession::session_id(): stable for the life of the session.
session_id(session) == <<160 + session.ratchet>>

PlainCode(content) == IF content = "hello" THEN 1 ELSE 2

\* GroupSession::encrypt(): the ciphertext is bound to the ratchet, the
\* message index and the plaintext; the index advances by one.
GroupSession_encrypt(session, content) ==
    [session |-> [session EXCEPT !.message_index = @ + 1],
     ciphertext |-> <<session.ratchet, session.message_index, PlainCode(content)>>]

\* ---- Result<T, String> --------------------------------------------------
Unit == [unit |-> TRUE]
Ok(v) == [ok |-> TRUE, err |-> "", val |-> v]
Err(e) == [ok |-> FALSE, err |-> e, val |-> Unit]

\* The error strings of lib.rs, under the names the specification gives
\* to the failure kinds.
NotInitialized == "Encryption not initialized"
NoSession(room_id) == "No outbound session for room " \o room_id
DecryptNotImplemented ==
    "Decryption not yet implemented - requires inbound session management"
MalformedEnvelope(e) == "Invalid encrypted message format: " \o e
\* Kinds of the specification that no line of lib.rs produces.
AlreadyInitialized == "AlreadyInitialized"
InvalidConversationId == "InvalidConversationId"
UnknownSession == "UnknownSession"
DecryptionFailed == "DecryptionFailed"

\* ---- serde_json, for EncryptedMessage -----------------------------------
\* A JSON text is either not JSON at all (syntax = FALSE) or an object, the
\* sequence of its <<name, string value>> members.
Json(members) == [syntax |-> TRUE, members |-> members]
NotJson == [syntax |-> FALSE, members |-> <<>>]

EncryptedMessageFields == <<"algorithm", "ciphertext", "sender_key", "session_id">>

Occurrences(members, name) == {i \in 1..Len(members) : members[i][1] = name}
Member(members, name) == members[CHOOSE i \in Occurrences(members, name) : TRUE][2]

\* serde_json::to_string(&EncryptedMessage), as the host serialises it.
to_string(msg) ==
    Json([i \in 1..4 |-> <<EncryptedMessageFields[i], msg[EncryptedMessageFields[i]]>>])

\* A variant of from_str with a slip in it: a missing field is taken as empty.
from_str_lenient(text) ==
    IF ~text.syntax THEN Err("expected value")
    ELSE Ok([f \in {"algorithm", "ciphertext", "sender_key", "session_id"} |->
                IF Occurrences(text.members, f) = {} THEN ""
                ELSE Member(text.members, f)])

\* serde_json::from_str::<EncryptedMessage>: every field exactly once,
\* unknown members ignored.
from_str(text) ==
    IF ~text.syntax THEN Err("expected value")
    ELSE IF \E i \in 1..4 : Occurrences(text.members, EncryptedMessageFields[i]) = {}
    THEN Err("missing field")
    ELSE IF \E i \in 1..4 : Cardinality(Occurrences(text.members, EncryptedMessageFields[i])) > 1
    THEN Err("duplicate field")
    ELSE Ok([algorithm  |-> Member(text.members, "algorithm"),
             ciphertext |-> Member(text.members, "ciphertext"),
             sender_key |-> Member(text.members, "sender_key"),
             session_id |-> Member(text.members, "session_id")])

\* ---- HashMap<String, GroupSession> --------------------------------------
HashMap_new == [r \in {} |-> GroupSession_new(0)]
\* Variants of insert with a slip in them, used to test the properties below.
insert_only(map, key, value) == [k \in {key} |-> value]
insert_keep(map, key, value) ==
    [k \in DOMAIN map \cup {key} |-> IF k \in DOMAIN map THEN map[k] ELSE value]


insert(map, key, value) ==
    [k \in DOMAIN map \cup {key} |-> IF k = key THEN value ELSE map[k]]

\* ---- impl EncryptionManager ---------------------------------------------
EncryptionManager_new(user_id, device_id, seed) ==
    LET olm_account == Account_new(seed)
        keys == identity_keys(olm_account)
    IN [olm_account |-> olm_account,
        outbound_sessions |-> HashMap_new,
        device_keys |-> [user_id |-> user_id,
                         device_id |-> device_id,
                         ed25519_key |-> hex_encode(keys.ed25519),
                         curve25519_key |-> hex_encode(keys.curve25519)]]

EncryptionManager_get_device_keys(self) == self.device_keys
\* A variant of create_outbound_session with a slip in it: the new session
\* comes with a new account and new keys.
EncryptionManager_create_outbound_session_rekey(self, room_id, seed) ==
    LET keys == identity_keys(Account_new(seed))
    IN [self |-> [self EXCEPT !.outbound_sessions =
                                  insert(@, room_id, GroupSession_new(seed)),
                              !.olm_account = Account_new(seed),
                              !.device_keys.ed25519_key = hex_encode(keys.ed25519),
                              !.device_keys.curve25519_key = hex_encode(keys.curve25519)],
        result |-> Ok(Unit)]

\* Returns the manager after the call and the call's result.
EncryptionManager_create_outbound_session(self, room_id, seed) ==
    [self |-> [self EXCEPT !.outbound_sessions =
                               insert(@, room_id, GroupSession_new(seed))],
     result |-> Ok(Unit)]
\* Variants of encrypt_message with a slip in them: one makes the session it
\* does not find, one takes the session identifier from some entry of the
\* table, one encrypts with a copy of the session and leaves the table as it
\* was, one advances every session of the table, one names the signing key as
\* the sender.
EncryptionManager_encrypt_message_edkey(self, content, room_id) ==
    IF room_id \notin DOMAIN self.outbound_sessions
    THEN [self |-> self, result |-> Err(NoSession(room_id))]
    ELSE LET enc == GroupSession_encrypt(self.outbound_sessions[room_id], content)
         IN [self |-> [self EXCEPT !.outbound_sessions[room_id] = enc.session],
             result |-> Ok([algorithm  |-> "m.megolm.v1.aes-sha2",
                            ciphertext |-> hex_encode(enc.ciphertext),
                            sender_key |-> hex_encode(identity_keys(self.olm_account).ed25519),
                            session_id |-> hex_encode(session_id(enc.session))])]
EncryptionManager_encrypt_message_all(self, content, room_id) ==
    IF room_id \notin DOMAIN self.outbound_sessions
    THEN [self |-> self, result |-> Err(NoSession(room_id))]
    ELSE LET enc == GroupSession_encrypt(self.outbound_sessions[room_id], content)
         IN [self |-> [self EXCEPT !.outbound_sessions =
                           [r \in DOMAIN @ |-> GroupSession_encrypt(@[r], content).session]],
             result |-> Ok([algorithm  |-> "m.megolm.v1.aes-sha2",
                            ciphertext |-> hex_encode(enc.ciphertext),
                            sender_key |-> hex_encode(identity_keys(self.olm_account).curve25519),
                            session_id |-> hex_encode(session_id(enc.session))])]
EncryptionManager_encrypt_message_clone(self, content, room_id) ==
    IF room_id \notin DOMAIN self.outbound_sessions
    THEN [self |-> self, result |-> Err(NoSession(room_id))]
    ELSE LET enc == GroupSession_encrypt(self.outbound_sessions[room_id], content)
         IN [self |-> self,
             result |-> Ok([algorithm  |-> "m.megolm.v1.aes-sha2",
                            ciphertext |-> hex_encode(enc.ciphertext),
                            sender_key |-> hex_encode(identity_keys(self.olm_account).curve25519),
                            session_id |-> hex_encode(session_id(enc.session))])]
EncryptionManager_encrypt_message_lazy(self, content, room_id) ==
    LET table == IF room_id \in DOMAIN self.outbound_sessions
                 THEN self.outbound_sessions
                 ELSE insert(self.outbound_sessions, room_id, GroupSession_new(0))
        enc == GroupSession_encrypt(table[room_id], content)
    IN [self |-> [self EXCEPT !.outbound_sessions = insert(table, room_id, enc.session)],
        result |-> Ok([algorithm  |-> "m.megolm.v1.aes-sha2",
                       ciphertext |-> hex_encode(enc.ciphertext),
                       sender_key |-> hex_encode(identity_keys(self.olm_account).curve25519),
                       session_id |-> hex_encode(session_id(enc.session))])]
EncryptionManager_encrypt_message_anyroom(self, content, room_id) ==
    IF room_id \notin DOMAIN self.outbound_sessions
    THEN [self |-> self, result |-> Err(NoSession(room_id))]
    ELSE LET enc == GroupSession_encrypt(self.outbound_sessions[room_id], content)
             any == CHOOSE r \in DOMAIN self.outbound_sessions : TRUE
         IN [self |-> [self EXCEPT !.outbound_sessions[room_id] = enc.session],
             result |-> Ok([algorithm  |-> "m.megolm.v1.aes-sha2",
                            ciphertext |-> hex_encode(enc.ciphertext),
                            sender_key |-> hex_encode(identity_keys(self.olm_account).curve25519),
                            session_id |-> hex_encode(session_id(self.outbound_sessions[any]))])]


EncryptionManager_encrypt_message(self, content, room_id) ==
    IF room_id \notin DOMAIN self.outbound_sessions
    THEN [self |-> self, result |-> Err(NoSession(room_id))]
    ELSE LET enc == GroupSession_encrypt(self.outbound_sessions[room_id], content)
         IN [self |-> [self EXCEPT !.outbound_sessions[room_id] = enc.session],
             result |-> Ok([algorithm  |-> "m.megolm.v1.aes-sha2",
                            ciphertext |-> hex_encode(enc.ciphertext),
                            sender_key |-> hex_encode(identity_keys(self.olm_account).curve25519),
                            session_id |-> hex_encode(session_id(enc.session))])]
\* A variant of decrypt_message with a slip in it: the room's outbound
\* session is dropped before the error is returned.
EncryptionManager_decrypt_message_consume(self, encrypted, room_id) ==
    [self |-> [self EXCEPT !.outbound_sessions =
                               [r \in DOMAIN @ \ {room_id} |-> @[r]]],
     result |-> Err(DecryptNotImplemented)]


EncryptionManager_decrypt_message(self, encrypted, room_id) ==
    [self |-> self, result |-> Err(DecryptNotImplemented)]

\* ---- state --------------------------------------------------------------
VARIABLES
    ENCRYPTION_STATE,  \* Option<EncryptionManager>: <<>> is None, <<m>> is Some(m)
    holder,            \* the thread holding the mutex, or "free"
    pc,                \* where each thread is: "idle", "lock" (about to lock), "crit"
    op,                \* the exported operation each thread is in
    arg,               \* the arguments of that call
    manager,           \* init_encryption's local `manager`, built before the lock
    encrypted_msg,     \* decrypt_message's local `encrypted_msg`, parsed before the lock
    returned,          \* the call that returned in the last step, if one did
    rng,               \* the random source: the next draw of Account::new(), GroupSession::new()
    created,           \* history: created[k] is the room the session of draw k was created
                       \* for, or AccountDraw if draw k made an account
    initAt,            \* history: Len(created) when the last init stored its manager
    admitted           \* history: <<room, session id>> pairs given to admit_inbound_session

vars == <<ENCRYPTION_STATE, holder, pc, op, arg, manager, encrypted_msg, returned,
          rng, created, initAt, admitted>>

AccountDraw == "<account>"
NoArg == [user_id |-> "", device_id |-> "", room_id |-> "", content |-> "",
          encrypted |-> NotJson]
NoReturn == [op |-> "none", arg |-> NoArg, result |-> Ok(Unit)]

Init ==
    /\ ENCRYPTION_STATE = <<>>
    /\ holder = "free"
    /\ pc = [t \in Threads |-> "idle"]
    /\ op = [t \in Threads |-> "none"]
    /\ arg = [t \in Threads |-> NoArg]
    /\ manager = [t \in Threads |-> <<>>]
    /\ encrypted_msg = [t \in Threads |-> <<>>]
    /\ returned = NoReturn
    /\ rng = 1
    /\ created = <<>>
    /\ initAt = 0
    /\ admitted = {}

\* ---- what the host can call with ----------------------------------------
InCall(o) == {t \in Threads : pc[t] # "idle" /\ op[t] = o}

ForgedEnvelope == [algorithm |-> "m.megolm.v1.aes-sha2", ciphertext |-> "00",
                   sender_key |-> "00", session_id |-> "ff"]

\* The texts the host passes to decrypt_message: something that is not
\* JSON, an object lacking fields, an envelope of an unknown session, and
\* the envelope encrypt_message returned last.
DecryptArgs ==
    {[NoArg EXCEPT !.encrypted = w] :
        w \in {NotJson, Json(<<<<"algorithm", "m.megolm.v1.aes-sha2">>>>),
               to_string(ForgedEnvelope)}}
    \cup (IF returned.op = "encrypt_message" /\ returned.result.ok
          THEN {[NoArg EXCEPT !.encrypted = to_string(returned.result.val)]}
          ELSE {})

MessagesSent(room_id) ==
    IF ENCRYPTION_STATE # <<>> /\ room_id \in DOMAIN ENCRYPTION_STATE[1].outbound_sessions
    THEN ENCRYPTION_STATE[1].outbound_sessions[room_id].message_index
    ELSE 0

\* The host thread enters an exported operation.
Enter(t, o, a) ==
    /\ pc[t] = "idle"
    /\ pc' = [pc EXCEPT ![t] = "lock"]
    /\ op' = [op EXCEPT ![t] = o]
    /\ arg' = [arg EXCEPT ![t] = a]
\* A variant of Return with a slip in it: on an error the guard is not dropped.
Return_leak(t, o, a, r) ==
    /\ returned' = [op |-> o, arg |-> a, result |-> r]
    /\ pc' = [pc EXCEPT ![t] = "idle"]
    /\ op' = [op EXCEPT ![t] = "none"]
    /\ arg' = [arg EXCEPT ![t] = NoArg]
    /\ holder' = IF holder = t /\ r.ok THEN "free" ELSE holder

\* The operation returns r; its guard, if it holds one, is dropped, which
\* frees the mutex.
Return(t, o, a, r) ==
    /\ returned' = [op |-> o, arg |-> a, result |-> r]
    /\ pc' = [pc EXCEPT ![t] = "idle"]
    /\ op' = [op EXCEPT ![t] = "none"]
    /\ arg' = [arg EXCEPT ![t] = NoArg]
    /\ holder' = IF holder = t THEN "free" ELSE holder

InCrit(t, o) == pc[t] = "crit" /\ op[t] = o /\ holder = t
\* A variant of Lock with a slip in it: it does not wait for the mutex.
Lock_noguard(t) ==
    /\ pc[t] = "lock"
    /\ holder' = t
    /\ pc' = [pc EXCEPT ![t] = "crit"]
    /\ returned' = NoReturn
    /\ UNCHANGED <<ENCRYPTION_STATE, op, arg, manager, encrypted_msg,
                   rng, created, initAt, admitted>>

\* ENCRYPTION_STATE.lock(): blocks until the mutex is free.
Lock(t) ==
    /\ pc[t] = "lock"
    /\ holder = "free"
    /\ holder' = t
    /\ pc' = [pc EXCEPT ![t] = "crit"]
    /\ returned' = NoReturn
    /\ UNCHANGED <<ENCRYPTION_STATE, op, arg, manager, encrypted_msg,
                   rng, created, initAt, admitted>>

\* ---- the exported operations --------------------------------------------
\* init_encryption, line 91: the manager is built before the lock is taken.
\* (The guard keeps the random source inside the model's bound.)
init_encryption_new(t) ==
    /\ rng + Cardinality(InCall("create_outbound_session")) <= MaxDraws
    /\ \E u \in Users, d \in Devices :
          /\ Enter(t, "init_encryption", [NoArg EXCEPT !.user_id = u, !.device_id = d])
          /\ manager' = [manager EXCEPT ![t] = <<EncryptionManager_new(u, d, rng)>>]
    /\ rng' = rng + 1
    /\ created' = Append(created, AccountDraw)
    /\ returned' = NoReturn
    /\ UNCHANGED <<ENCRYPTION_STATE, holder, encrypted_msg, initAt, admitted>>
\* Variants of init_encryption_store with a slip in them: one refuses a second
\* init, one carries the session table over to the new manager.
init_encryption_store_once(state, m) ==
    IF state # <<>> THEN [state |-> state, result |-> Err(AlreadyInitialized)]
    ELSE [state |-> <<m>>, result |-> Ok(Unit)]
init_encryption_store_keep(state, m) ==
    [state |-> <<[m EXCEPT !.outbound_sessions =
                      IF state # <<>> THEN state[1].outbound_sessions ELSE @]>>,
     result |-> Ok(Unit)]

\* What init_encryption does to the state it finds under the lock.
init_encryption_store(state, m) == [state |-> <<m>>, result |-> Ok(Unit)]

\* init_encryption, lines 92-93.
init_encryption(t) ==
    /\ InCrit(t, "init_encryption")
    /\ LET r == init_encryption_store(ENCRYPTION_STATE, manager[t][1])
       IN /\ ENCRYPTION_STATE' = r.state
          /\ initAt' = IF r.result.ok THEN Len(created) ELSE initAt
          /\ Return(t, op[t], arg[t], r.result)
    /\ manager' = [manager EXCEPT ![t] = <<>>]
    /\ UNCHANGED <<encrypted_msg, rng, created, admitted>>

\* The host calls get_device_keys, create_outbound_session or
\* encrypt_message: nothing happens before the lock.  (The guards keep the
\* random source and the message counters inside the model's bounds.)
Call(t) ==
    /\ \/ Enter(t, "get_device_keys", NoArg)
       \/ \E r \in Rooms :
             /\ rng + Cardinality(InCall("create_outbound_session")) <= MaxDraws
             /\ Enter(t, "create_outbound_session", [NoArg EXCEPT !.room_id = r])
       \/ \E c \in Contents, r \in Rooms :
             /\ MessagesSent(r)
                   + Cardinality({x \in InCall("encrypt_message") : arg[x].room_id = r})
                   < MaxMessages
             /\ Enter(t, "encrypt_message", [NoArg EXCEPT !.content = c, !.room_id = r])
    /\ returned' = NoReturn
    /\ UNCHANGED <<ENCRYPTION_STATE, holder, manager, encrypted_msg,
                   rng, created, initAt, admitted>>

\* What each operation does to the state it finds under the lock: the
\* state it leaves and the result it returns.
get_device_keys_body(state) ==
    IF state # <<>>
    THEN [state |-> state, result |-> Ok(EncryptionManager_get_device_keys(state[1]))]
    ELSE [state |-> state, result |-> Err(NotInitialized)]
\* A variant of create_outbound_session_body with a slip in it: no error
\* when there is no manager.
create_outbound_session_body_unchecked(state, room_id, seed) ==
    IF state # <<>>
    THEN LET r == EncryptionManager_create_outbound_session(state[1], room_id, seed)
         IN [state |-> <<r.self>>, result |-> r.result]
    ELSE [state |-> state, result |-> Ok(Unit)]


create_outbound_session_body(state, room_id, seed) ==
    IF state # <<>>
    THEN LET r == EncryptionManager_create_outbound_session(state[1], room_id, seed)
         IN [state |-> <<r.self>>, result |-> r.result]
    ELSE [state |-> state, result |-> Err(NotInitialized)]

encrypt_message_body(state, content, room_id) ==
    IF state # <<>>
    THEN LET r == EncryptionManager_encrypt_message(state[1], content, room_id)
         IN [state |-> <<r.self>>, result |-> r.result]
    ELSE [state |-> state, result |-> Err(NotInitialized)]

decrypt_message_body(state, msg, room_id) ==
    IF state # <<>>
    THEN LET r == EncryptionManager_decrypt_message(state[1], msg, room_id)
         IN [state |-> <<r.self>>, result |-> r.result]
    ELSE [state |-> state, result |-> Err(NotInitialized)]

get_device_keys(t) ==
    /\ InCrit(t, "get_device_keys")
    /\ LET r == get_device_keys_body(ENCRYPTION_STATE)
       IN /\ ENCRYPTION_STATE' = r.state
          /\ Return(t, op[t], arg[t], r.result)
    /\ UNCHANGED <<manager, encrypted_msg, rng, created, initAt, admitted>>

create_outbound_session(t) ==
    /\ InCrit(t, "create_outbound_session")
    /\ LET r == create_outbound_session_body(ENCRYPTION_STATE, arg[t].room_id, rng)
       IN /\ ENCRYPTION_STATE' = r.state
          /\ rng' = IF ENCRYPTION_STATE # <<>> THEN rng + 1 ELSE rng
          /\ created' = IF ENCRYPTION_STATE # <<>> THEN Append(created, arg[t].room_id)
                                                   ELSE created
          /\ Return(t, op[t], arg[t], r.result)
    /\ UNCHANGED <<manager, encrypted_msg, initAt, admitted>>

encrypt_message(t) ==
    /\ InCrit(t, "encrypt_message")
    /\ LET r == encrypt_message_body(ENCRYPTION_STATE, arg[t].content, arg[t].room_id)
       IN /\ ENCRYPTION_STATE' = r.state
          /\ Return(t, op[t], arg[t], r.result)
    /\ UNCHANGED <<manager, encrypted_msg, rng, created, initAt, admitted>>

\* decrypt_message, lines 125-126: the envelope is decoded before the lock;
\* a text that does not decode makes the call return at once.
decrypt_message_parse(t) ==
    /\ pc[t] = "idle"
    /\ \E a \in DecryptArgs, r \in Rooms \ {""} :
          LET a2 == [a EXCEPT !.room_id = r]
              parsed == from_str(a2.encrypted)
          IN IF parsed.ok
             THEN /\ Enter(t, "decrypt_message", a2)
                  /\ encrypted_msg' = [encrypted_msg EXCEPT ![t] = <<parsed.val>>]
                  /\ returned' = NoReturn
                  /\ UNCHANGED holder
             ELSE /\ Return(t, "decrypt_message", a2, Err(MalformedEnvelope(parsed.err)))
                  /\ UNCHANGED encrypted_msg
    /\ UNCHANGED <<ENCRYPTION_STATE, manager, rng,
                   created, initAt, admitted>>

\* decrypt_message, lines 128-132.
decrypt_message(t) ==
    /\ InCrit(t, "decrypt_message")
    /\ LET r == decrypt_message_body(ENCRYPTION_STATE, encrypted_msg[t][1], arg[t].room_id)
       IN /\ ENCRYPTION_STATE' = r.state
          /\ Return(t, op[t], arg[t], r.result)
    /\ encrypted_msg' = [encrypted_msg EXCEPT ![t] = <<>>]
    /\ UNCHANGED <<manager, rng, created, initAt, admitted>>

\* admit_inbound_session: required by the specification, absent from lib.rs.
\* The Key Distribution Channel hands over the genesis key material of an
\* outbound session, with the conversation it was created for and its
\* session identifier; the pair is recorded as admitted.
admit_inbound_session ==
    /\ Cardinality(admitted) < MaxAdmitted
    /\ \E k \in {i \in 1..Len(created) : created[i] # AccountDraw} :
          LET pair == <<created[k], hex_encode(session_id(GroupSession_new(k)))>>
          IN /\ pair \notin admitted
             /\ admitted' = admitted \cup {pair}
    /\ returned' = NoReturn
    /\ UNCHANGED <<ENCRYPTION_STATE, holder, pc, op, arg, manager, encrypted_msg,
                   rng, created, initAt>>

Step(t) ==
    \/ Call(t)
    \/ Lock(t)
    \/ init_encryption_new(t)
    \/ init_encryption(t)
    \/ get_device_keys(t)
    \/ create_outbound_session(t)
    \/ encrypt_message(t)
    \/ decrypt_message_parse(t)
    \/ decrypt_message(t)

Next == (\E t \in Threads : Step(t)) \/ admit_inbound_session

Spec == Init /\ [][Next]_vars

\* What a thread does under the lock: straight-line code that ends in a return.
Body(t) ==
    \/ init_encryption(t)
    \/ get_device_keys(t)
    \/ create_outbound_session(t)
    \/ encrypt_message(t)
    \/ decrypt_message(t)

\* Fair scheduling: a thread under the lock runs on to its return, and a
\* thread waiting in lock() is not passed over for ever while the mutex
\* keeps coming free.
FairSpec ==
    /\ Spec
    /\ \A t \in Threads : WF_vars(Body(t)) /\ SF_vars(Lock(t))

\* ---- properties ---------------------------------------------------------
\* A step in which a call returns is one that leaves a call in `returned`;
\* the unprimed variables are then the state the call found (under the lock,
\* when it took it) and the primed ones the state it left.
Returns(o) == returned'.op = o
Room == returned'.arg.room_id
Table == ENCRYPTION_STATE[1].outbound_sessions
TableAfter == ENCRYPTION_STATE'[1].outbound_sessions

\* The draws that made sessions, the identifier of the session of draw k, and
\* the sessions created for room c since the last init stored its manager.
Sessions == {k \in 1..Len(created) : created[k] # AccountDraw}
SessionIdHex(k) == hex_encode(session_id(GroupSession_new(k)))
CreatedSinceInit(c) == {k \in Sessions : k > initAt /\ created[k] = c}

\* C1, as stated: every operation other than init, called with any argument
\* while there is no manager, returns NotInitialized and leaves no manager.
C1_Original ==
    [][(/\ returned'.op \in {"get_device_keys", "create_outbound_session",
                             "encrypt_message", "decrypt_message"}
        /\ ENCRYPTION_STATE = <<>>)
       => /\ returned'.result = Err(NotInitialized)
          /\ ENCRYPTION_STATE' = <<>>]_vars

\* C1, amended: get_device_keys, create_outbound_session and encrypt_message
\* with any argument, and decrypt_message with a text that decodes to an
\* EncryptedMessage, return NotInitialized while there is no manager, and
\* leave no manager; decrypt_message with a text that does not decode returns
\* the decoding error instead.
C1_NotInitialized ==
    [][(/\ returned'.op \in {"get_device_keys", "create_outbound_session",
                             "encrypt_message", "decrypt_message"}
        /\ ENCRYPTION_STATE = <<>>)
       => /\ ENCRYPTION_STATE' = <<>>
          /\ LET parsed == from_str(returned'.arg.encrypted)
             IN returned'.result =
                   IF Returns("decrypt_message") /\ ~parsed.ok
                   THEN Err(MalformedEnvelope(parsed.err))
                   ELSE Err(NotInitialized)]_vars

C1_Witness ==
    /\ ENCRYPTION_STATE = <<>>
    /\ returned.op = "decrypt_message"
    /\ from_str(returned.arg.encrypted).ok
    /\ returned.result = Err(NotInitialized)

\* C2: encrypt_message for a room no create_outbound_session was ever made
\* for, on an initialized manager, fails with NoSession and leaves no table
\* entry for the room.
C2_NoSessionBeforeCreate ==
    [][(/\ Returns("encrypt_message")
        /\ ENCRYPTION_STATE # <<>>
        /\ \A k \in Sessions : created[k] # Room)
       => /\ returned'.result = Err(NoSession(Room))
          /\ ENCRYPTION_STATE' # <<>>
          /\ Room \notin DOMAIN TableAfter]_vars

C2_Witness ==
    /\ returned.op = "encrypt_message"
    /\ returned.result = Err(NoSession(returned.arg.room_id))
    /\ ENCRYPTION_STATE # <<>>
    /\ \A k \in Sessions : created[k] # returned.arg.room_id

C5_ReinitDestroysSessions ==
    [][/\ Returns("init_encryption") /\ returned'.result.ok
          => ENCRYPTION_STATE' # <<>> /\ DOMAIN TableAfter = {}
       /\ (Returns("encrypt_message") /\ ENCRYPTION_STATE # <<>>
              /\ CreatedSinceInit(Room) = {})
          => returned'.result = Err(NoSession(Room))
       /\ (Returns("encrypt_message") /\ returned'.result.ok)
          => /\ \E k \in CreatedSinceInit(Room) :
                   returned'.result.val.session_id = SessionIdHex(k)
             /\ \A k \in Sessions :
                   k <= initAt => returned'.result.val.session_id # SessionIdHex(k)]_vars

\* After a re-init, an encrypt for a room that had a session before it has
\* failed with NoSession.
C5_Witness ==
    /\ returned.op = "encrypt_message"
    /\ returned.result = Err(NoSession(returned.arg.room_id))
    /\ \E k \in Sessions : k <= initAt /\ created[k] = returned.arg.room_id

\* C6, as stated: create_outbound_session("") on an initialized manager fails
\* with InvalidConversationId and adds no table entry.
C6_EmptyRoomRejected ==
    [][(Returns("create_outbound_session") /\ Room = "" /\ ENCRYPTION_STATE # <<>>)
       => /\ returned'.result = Err(InvalidConversationId)
          /\ ENCRYPTION_STATE' = ENCRYPTION_STATE]_vars

\* C7: on an initialized manager create_outbound_session(c) returns Ok, also
\* when c has a session; the table then holds for c one session, a new one,
\* whose identifier differs from that of every session created before; and
\* an envelope for c carries the identifier of the session created last for c.
C7_CreateSupersedes ==
    [][/\ (Returns("create_outbound_session") /\ ENCRYPTION_STATE # <<>>)
          => /\ returned'.result = Ok(Unit)
             /\ ENCRYPTION_STATE' # <<>>
             /\ Room \in DOMAIN TableAfter
             /\ TableAfter[Room].message_index = 0
             /\ \A k \in Sessions :
                   hex_encode(session_id(TableAfter[Room])) # SessionIdHex(k)
             /\ \A r \in DOMAIN Table \ {Room} :
                   r \in DOMAIN TableAfter /\ TableAfter[r] = Table[r]
       /\ (Returns("encrypt_message") /\ returned'.result.ok)
          => \E k \in Sessions :
                /\ created[k] = Room
                /\ returned'.result.val.session_id = SessionIdHex(k)
                /\ \A j \in Sessions :
                      j < k => returned'.result.val.session_id # SessionIdHex(j)
                /\ \A j \in Sessions : j > k => created[j] # Room]_vars

\* create_outbound_session has returned Ok for a room that had a current
\* session.
C7_Witness ==
    /\ returned.op = "create_outbound_session"
    /\ returned.result = Ok(Unit)
    /\ Cardinality(CreatedSinceInit(returned.arg.room_id)) >= 2

\* C8: the session identifier of a returned envelope is that of the table's
\* entry for the room when encrypt_message held the lock: not that of a
\* superseded session, nor that of another room's session.
C8_EnvelopeOfCurrentSession ==
    [][(Returns("encrypt_message") /\ returned'.result.ok)
       => /\ ENCRYPTION_STATE # <<>>
          /\ Room \in DOMAIN Table
          /\ returned'.result.val.session_id = hex_encode(session_id(Table[Room]))
          /\ \A k \in Sessions :
                k # Table[Room].ratchet
                   => returned'.result.val.session_id # SessionIdHex(k)
          /\ \A r \in DOMAIN Table \ {Room} :
                returned'.result.val.session_id # hex_encode(session_id(Table[r]))]_vars

\* An envelope has returned for a room while the other thread is in a
\* create_outbound_session for the same room, waiting for the lock.
C8_Witness ==
    /\ returned.op = "encrypt_message"
    /\ returned.result.ok
    /\ \E t \in Threads :
          /\ pc[t] = "lock" /\ op[t] = "create_outbound_session"
          /\ arg[t].room_id = returned.arg.room_id

\* C9, as stated: decrypt_message of an envelope an outbound session
\* produced, after the session's key material was admitted for the room,
\* returns the original plaintext and the envelope's sender key.
C9_RoundTrip ==
    [][(/\ Returns("decrypt_message")
        /\ ENCRYPTION_STATE # <<>>
        /\ from_str(returned'.arg.encrypted).ok
        /\ LET msg == from_str(returned'.arg.encrypted).val
           IN /\ <<Room, msg.session_id>> \in admitted
              /\ \E k \in Sessions, i \in 0..MaxMessages, c \in Contents :
                    /\ msg.session_id = SessionIdHex(k)
                    /\ msg.ciphertext = hex_encode(<<k, i, PlainCode(c)>>))
       => LET msg == from_str(returned'.arg.encrypted).val
          IN \E c \in Contents :
                /\ \E k \in Sessions, i \in 0..MaxMessages :
                      msg.ciphertext = hex_encode(<<k, i, PlainCode(c)>>)
                /\ returned'.result =
                      Ok([plaintext |-> c, sender_key |-> msg.sender_key])]_vars

\* C10, as stated: decrypt_message of a well-formed envelope whose session
\* was never admitted fails with UnknownSession.
C10_UnknownSession ==
    [][(/\ Returns("decrypt_message")
        /\ ENCRYPTION_STATE # <<>>
        /\ from_str(returned'.arg.encrypted).ok
        /\ \A r \in Rooms :
              <<r, from_str(returned'.arg.encrypted).val.session_id>> \notin admitted)
       => returned'.result = Err(UnknownSession)]_vars

\* C11, as stated: when create_outbound_session(c) replaces a session of c,
\* the manager still holds the replaced session afterwards.
C11_OldSessionRetained ==
    [][(/\ Returns("create_outbound_session")
        /\ ENCRYPTION_STATE # <<>>
        /\ Room \in DOMAIN Table)
       => /\ ENCRYPTION_STATE' # <<>>
          /\ \E r \in DOMAIN TableAfter : TableAfter[r].ratchet = Table[Room].ratchet]_vars

\* A text decodes to an EncryptedMessage when it is a JSON object holding
\* each of the four fields once.
Decodes(text) ==
    /\ text.syntax
    /\ \A f \in {"algorithm", "ciphertext", "sender_key", "session_id"} :
          Cardinality({i \in 1..Len(text.members) : text.members[i][1] = f}) = 1

\* C12: decrypt_message of a text that does not decode returns the decoding
\* error without taking the lock: no thread changes position, the mutex and
\* the manager are as before, whether there is a manager or not.
C12_MalformedBeforeLock ==
    [][(Returns("decrypt_message") /\ ~Decodes(returned'.arg.encrypted))
       => /\ \E e \in {"expected value", "missing field", "duplicate field"} :
                returned'.result = Err(MalformedEnvelope(e))
          /\ ENCRYPTION_STATE' = ENCRYPTION_STATE
          /\ holder' = holder
          /\ pc' = pc
          /\ UNCHANGED <<rng, created, initAt, admitted, manager, encrypted_msg>>]_vars

\* The decoding error has returned to one thread while the other holds the
\* mutex and a manager exists.
C12_Witness ==
    /\ returned.op = "decrypt_message"
    /\ ~Decodes(returned.arg.encrypted)
    /\ ~returned.result.ok
    /\ holder # "free"
    /\ ENCRYPTION_STATE # <<>>

\* The session of room r is the same session before and after the step.
SameSession(r) ==
    /\ ENCRYPTION_STATE # <<>> /\ r \in DOMAIN Table
    /\ ENCRYPTION_STATE' # <<>> /\ r \in DOMAIN TableAfter
    /\ TableAfter[r].ratchet = Table[r].ratchet

EncryptOk == Returns("encrypt_message") /\ returned'.result.ok

\* C13: a session's message counter starts at zero, goes up by one in a
\* successful encrypt_message for its room and is left alone by every other
\* step; the ciphertext returned is bound to the session and the counter the
\* call found, so it differs from every envelope of the same session a caller
\* still holds, the plaintext being the same.
C13_MessageCounter ==
    [][/\ \A r \in Rooms :
             IF SameSession(r)
             THEN TableAfter[r].message_index =
                      Table[r].message_index + (IF EncryptOk /\ Room = r THEN 1 ELSE 0)
             ELSE (ENCRYPTION_STATE' # <<>> /\ r \in DOMAIN TableAfter)
                      => TableAfter[r].message_index = 0
       /\ EncryptOk =>
             /\ SameSession(Room)
             /\ returned'.result.val.session_id = hex_encode(session_id(Table[Room]))
             /\ returned'.result.val.ciphertext =
                    hex_encode(<<Table[Room].ratchet, Table[Room].message_index,
                                 PlainCode(returned'.arg.content)>>)
             /\ \A t \in Threads :
                   (/\ encrypted_msg[t] # <<>>
                    /\ encrypted_msg[t][1].session_id = returned'.result.val.session_id)
                   => encrypted_msg[t][1].ciphertext # returned'.result.val.ciphertext]_vars

\* A second message of a session has been returned while the other thread
\* holds the envelope of the first, made from the same plaintext.
C13_Witness ==
    /\ returned.op = "encrypt_message" /\ returned.result.ok
    /\ ENCRYPTION_STATE # <<>>
    /\ returned.arg.room_id \in DOMAIN Table
    /\ Table[returned.arg.room_id].message_index = 2
    /\ \E t \in Threads :
          /\ encrypted_msg[t] # <<>>
          /\ encrypted_msg[t][1].session_id = returned.result.val.session_id

\* Exactly the holder of the mutex is past the lock.
MutualExclusion == \A t \in Threads : pc[t] = "crit" <=> holder = t

\* The manager is of one piece: its device keys are those of its account,
\* and every session of its table was created after it was stored.
WholeManager ==
    ENCRYPTION_STATE # <<>> =>
        /\ ENCRYPTION_STATE[1].device_keys.curve25519_key =
               hex_encode(identity_keys(ENCRYPTION_STATE[1].olm_account).curve25519)
        /\ ENCRYPTION_STATE[1].device_keys.ed25519_key =
               hex_encode(identity_keys(ENCRYPTION_STATE[1].olm_account).ed25519)
        /\ \A r \in DOMAIN Table :
               /\ Table[r].ratchet \in initAt + 1 .. Len(created)
               /\ created[Table[r].ratchet] = r

\* A call returns from under the lock in this step.
LockedReturn == \E t \in Threads : pc[t] = "crit" /\ pc'[t] = "idle"

\* What the returning operation does when run alone on the state it found.
SequentialOutcome ==
    CASE Returns("init_encryption") ->
             init_encryption_store(ENCRYPTION_STATE, manager[holder][1])
      [] Returns("get_device_keys") -> get_device_keys_body(ENCRYPTION_STATE)
      [] Returns("create_outbound_session") ->
             create_outbound_session_body(ENCRYPTION_STATE, Room, rng)
      [] Returns("encrypt_message") ->
             encrypt_message_body(ENCRYPTION_STATE, returned'.arg.content, Room)
      [] Returns("decrypt_message") ->
             decrypt_message_body(ENCRYPTION_STATE, encrypted_msg[holder][1], Room)

\* C14: at most one thread is past the lock, and it is the holder of the
\* mutex; the manager changes only in the step in which the holder returns,
\* and then state and result are those of the operation run alone on the
\* state the previous holder left; the manager is never a new identity with
\* an old table.
C14_Linearizable ==
    /\ [](MutualExclusion /\ WholeManager)
    /\ [][/\ ENCRYPTION_STATE' # ENCRYPTION_STATE => LockedReturn
          /\ LockedReturn =>
                /\ holder \in Threads
                /\ pc[holder] = "crit" /\ pc'[holder] = "idle"
                /\ holder' = "free"
                /\ returned'.op = op[holder] /\ returned'.arg = arg[holder]
                /\ ENCRYPTION_STATE' = SequentialOutcome.state
                /\ returned'.result = SequentialOutcome.result]_vars

\* create_outbound_session has returned from under the lock while the other
\* thread, its new manager built, waits for the mutex in init_encryption.
C14_Witness ==
    /\ returned.op = "create_outbound_session" /\ returned.result.ok
    /\ \E t \in Threads : pc[t] = "lock" /\ op[t] = "init_encryption"

\* C15: a thread holds the mutex only while it is past the lock, the step in
\* which a call returns, with Ok or with Err, leaves the mutex free, so the
\* mutex is free whenever no call is in progress; and under fair scheduling
\* every call that was entered returns.
C15_GateReleased ==
    /\ [](\A t \in Threads : holder = t => pc[t] = "crit")
    /\ []((\A t \in Threads : pc[t] = "idle") => holder = "free")
    /\ [][\A t \in Threads : (pc[t] # "idle" /\ pc'[t] = "idle") => holder' = "free"]_vars
    /\ \A t \in Threads : (pc[t] # "idle") ~> (pc[t] = "idle")

\* A call has returned an error from under the lock, no call is in progress
\* and the mutex is free.
C15_Witness ==
    /\ returned.op \in {"get_device_keys", "create_outbound_session",
                        "encrypt_message", "decrypt_message"}
    /\ ~returned.result.ok
    /\ returned.result.err \in {NotInitialized, DecryptNotImplemented}
                                   \cup {NoSession(r) : r \in Rooms}
    /\ \A t \in Threads : pc[t] = "idle"
    /\ holder = "free"

\* C16: the account and the device keys of the manager are set by
\* init_encryption, from its arguments and the account it made, and no other
\* step changes them; get_device_keys returns them as they are.
C16_IdentityFixed ==
    [][/\ (ENCRYPTION_STATE # <<>> /\ ~Returns("init_encryption")) =>
              /\ ENCRYPTION_STATE' # <<>>
              /\ ENCRYPTION_STATE'[1].device_keys = ENCRYPTION_STATE[1].device_keys
              /\ ENCRYPTION_STATE'[1].olm_account = ENCRYPTION_STATE[1].olm_account
       /\ Returns("init_encryption") =>
              /\ ENCRYPTION_STATE' # <<>>
              /\ ENCRYPTION_STATE'[1].device_keys.user_id = returned'.arg.user_id
              /\ ENCRYPTION_STATE'[1].device_keys.device_id = returned'.arg.device_id
              /\ ENCRYPTION_STATE'[1].olm_account = manager[holder][1].olm_account
              /\ created[ENCRYPTION_STATE'[1].olm_account.seed] = AccountDraw
              /\ ENCRYPTION_STATE'[1].device_keys.ed25519_key =
                     hex_encode(identity_keys(ENCRYPTION_STATE'[1].olm_account).ed25519)
              /\ ENCRYPTION_STATE'[1].device_keys.curve25519_key =
                     hex_encode(identity_keys(ENCRYPTION_STATE'[1].olm_account).curve25519)
       /\ (Returns("get_device_keys") /\ returned'.result.ok) =>
              /\ ENCRYPTION_STATE # <<>>
              /\ returned'.result.val = ENCRYPTION_STATE[1].device_keys
              /\ returned'.result.val.user_id \in Users
              /\ returned'.result.val.device_id \in Devices]_vars

\* get_device_keys has returned the keys of the second manager, after a
\* session was created and a message encrypted under it.
C16_Witness ==
    /\ returned.op = "get_device_keys" /\ returned.result.ok
    /\ ENCRYPTION_STATE # <<>>
    /\ ENCRYPTION_STATE[1].olm_account.seed = 2
    /\ \E r \in DOMAIN Table : Table[r].message_index > 0

\* C17: create_outbound_session(c) and encrypt_message(_, c), whatever they
\* return, leave every other conversation as it was: it has a session after
\* the call if and only if it had one before, and the session is the same,
\* message counter included.
C17_OtherRoomsUntouched ==
    [][(Returns("create_outbound_session") \/ Returns("encrypt_message")) =>
          /\ (ENCRYPTION_STATE = <<>>) = (ENCRYPTION_STATE' = <<>>)
          /\ ENCRYPTION_STATE # <<>> =>
                \A d \in Rooms \ {Room} :
                    /\ (d \in DOMAIN Table) = (d \in DOMAIN TableAfter)
                    /\ d \in DOMAIN Table => TableAfter[d] = Table[d]]_vars

\* A call for one conversation has changed its session while the other
\* conversation has a session that has encrypted a message.
C17_Witness ==
    /\ returned.op \in {"create_outbound_session", "encrypt_message"}
    /\ returned.result.ok
    /\ ENCRYPTION_STATE # <<>>
    /\ DOMAIN Table = Rooms
    /\ \E d \in Rooms \ {returned.arg.room_id} : Table[d].message_index > 0

\* C18: the sender key of a returned envelope is the curve25519 key
\* get_device_keys reports for the manager the call found, and of no other
\* account made so far; the algorithm tag is "m.megolm.v1.aes-sha2"; and the
\* session of the envelope was created for the room under that same manager,
\* after it was stored, also while another init_encryption is under way.
C18_SenderOfCurrentIdentity ==
    [][EncryptOk =>
          /\ ENCRYPTION_STATE # <<>>
          /\ get_device_keys_body(ENCRYPTION_STATE).result.ok
          /\ returned'.result.val.sender_key =
                 get_device_keys_body(ENCRYPTION_STATE).result.val.curve25519_key
          /\ returned'.result.val.algorithm = "m.megolm.v1.aes-sha2"
          /\ ENCRYPTION_STATE[1].olm_account.seed \in 1..initAt
          /\ \A j \in 1..Len(created) :
                (created[j] = AccountDraw /\ j # ENCRYPTION_STATE[1].olm_account.seed)
                   => returned'.result.val.sender_key #
                          hex_encode(identity_keys(Account_new(j)).curve25519)
          /\ \E k \in CreatedSinceInit(Room) :
                returned'.result.val.session_id = SessionIdHex(k)
          /\ ENCRYPTION_STATE'[1].device_keys = ENCRYPTION_STATE[1].device_keys]_vars

\* An envelope has returned while the other thread, having made a new
\* account, waits for the lock in init_encryption.
C18_Witness ==
    /\ returned.op = "encrypt_message" /\ returned.result.ok
    /\ \E t \in Threads :
          /\ pc[t] = "lock" /\ op[t] = "init_encryption"
          /\ manager[t] # <<>>
          /\ manager[t][1].olm_account # ENCRYPTION_STATE[1].olm_account

\* C19: a call that returns an error leaves the manager, or the absence of
\* one, exactly as it found it, and so does every decrypt_message.
C19_ErrorsChangeNothing ==
    [][(/\ returned'.op # "none"
        /\ ~returned'.result.ok \/ Returns("decrypt_message"))
       => ENCRYPTION_STATE' = ENCRYPTION_STATE]_vars

\* decrypt_message has returned its error for a room whose outbound session
\* has encrypted a message, and the session is still there.
C19_Witness ==
    /\ returned.op = "decrypt_message"
    /\ returned.result = Err(DecryptNotImplemented)
    /\ ENCRYPTION_STATE # <<>>
    /\ returned.arg.room_id \in DOMAIN Table
    /\ Table[returned.arg.room_id].message_index > 0
====
